---------------------------- MODULE Spec2Model ----------------------------
(***************************************************************************)
(* A model of the WebGL renderer of asteroids-webgl (src/lib/render.ts):   *)
(* construction (compile, link, first resize, listeners), the frame        *)
(* lifecycle (clear, resize), the draw primitives (draw, drawBody, line,   *)
(* polygon, the debug grid and overlay text) and the attribute / uniform   *)
(* binder.  The GPU and 2D contexts are a recording surface: every call    *)
(* the renderer makes on them during one operation is appended to `calls`. *)
(***************************************************************************)
EXTENDS Integers, Sequences, FiniteSets, TLC

(***************************************************************************)
(* JavaScript numbers.  Every number the renderer computes with in its     *)
(* loops (angles up to 2*PI, grid coordinates, the aspect ratio) is an     *)
(* IEEE-754 double of magnitude in [2^-4, 2^4) or a small difference of    *)
(* such doubles, hence an integer multiple of 2^-56.  A number is the      *)
(* record [neg, hi, lo] standing for (-1)^neg * (hi * 2^30 + lo) * 2^-56,  *)
(* and the operations round to 53 significant bits, ties to even, as the   *)
(* hardware does.                                                          *)
(***************************************************************************)
Base == 2^30
Half == 2^15
Exact == 2^23      \* hi below this: at most 53 significant bits

F(neg, hi, lo) == [neg |-> neg, hi |-> hi, lo |-> lo]

FZero == F(FALSE, 0, 0)

\* the integer n (0 <= n < 16) as a double: n * 2^56 = (n * 2^26) * 2^30
FromInt(n) == F(FALSE, n * 2^26, 0)

FNeg(a) == IF a.hi = 0 /\ a.lo = 0 THEN a ELSE F(~a.neg, a.hi, a.lo)

\* magnitude comparison |a| < |b|
MagLess(a, b) == a.hi < b.hi \/ (a.hi = b.hi /\ a.lo < b.lo)

\* a < b
FLess(a, b) ==
    IF a.neg /\ ~b.neg THEN ~(a.hi = 0 /\ a.lo = 0 /\ b.hi = 0 /\ b.lo = 0)
    ELSE IF ~a.neg /\ b.neg THEN FALSE
    ELSE IF a.neg THEN MagLess(b, a)
    ELSE MagLess(a, b)

\* a <= b
FLeq(a, b) == ~FLess(b, a)

RECURSIVE Gran(_)
\* the spacing of doubles (in units of 2^-56) at a magnitude whose high limb is h
Gran(h) == IF h < Exact THEN 1 ELSE 2 * Gran(h \div 2)

\* The magnitude hi * 2^30 + lo + r / n (0 <= r < n) rounded to 53
\* significant bits, round-half-to-even.
RoundTo53(neg, hi, lo, r, n) ==
    LET g == Gran(hi)
        low == lo % g
        down == lo - low
        twice == 2 * (low * n + r)
        full == g * n
        up == twice > full \/ (twice = full /\ (down \div g) % 2 = 1)
        lo2 == IF up THEN down + g ELSE down
    IN  IF lo2 >= Base THEN F(neg, hi + 1, lo2 - Base) ELSE F(neg, hi, lo2)

\* |a| + |b|, exact, as <<hi, lo>>
MagAdd(a, b) ==
    LET s == a.lo + b.lo
    IN  IF s >= Base THEN <<a.hi + b.hi + 1, s - Base>> ELSE <<a.hi + b.hi, s>>

\* |a| - |b| for |a| >= |b|, exact, as <<hi, lo>>
MagSub(a, b) ==
    IF a.lo >= b.lo THEN <<a.hi - b.hi, a.lo - b.lo>>
    ELSE <<a.hi - b.hi - 1, a.lo + Base - b.lo>>

\* a + b in double arithmetic
FAdd(a, b) ==
    IF a.neg = b.neg
    THEN LET m == MagAdd(a, b) IN RoundTo53(a.neg, m[1], m[2], 0, 1)
    ELSE IF MagLess(a, b)
    THEN LET m == MagSub(b, a) IN RoundTo53(b.neg, m[1], m[2], 0, 1)
    ELSE LET m == MagSub(a, b)
         IN  IF m[1] = 0 /\ m[2] = 0 THEN FZero
             ELSE RoundTo53(a.neg, m[1], m[2], 0, 1)

\* a / n in double arithmetic, for a >= 0 and an integer 0 < n < 2^14 with
\* a / n >= 2^-4: long division over the limbs, then one rounding.
FDiv(a, n) ==
    LET qh == a.hi \div n
        rh == a.hi % n
        t1 == rh * Half + (a.lo \div Half)
        q1 == t1 \div n
        r1 == t1 % n
        t0 == r1 * Half + (a.lo % Half)
        q0 == t0 \div n
        r0 == t0 % n
    IN  RoundTo53(a.neg, qh, q1 * Half + q0, r0, n)

\* a * 2 (exact in binary floating point)
FDouble(a) == LET m == MagAdd(a, a) IN F(a.neg, m[1], m[2])

\* Math.PI = 0x400921FB54442D18
MathPI == F(FALSE, 210828714, 142975744)

\* the literal 0.1 = 0x3FB999999999999A
Tenth == FDiv(FromInt(1), 10)


One == FromInt(1)

\* a decimal literal k/10 (0.1, 0.2, 0.25 = 1/4, ...): the nearest double
Lit(k, d) == IF k = 0 THEN FZero ELSE FDiv(FromInt(k), d)

(***************************************************************************)
(* JavaScript values: a number is a record [neg, hi, lo]; an array is      *)
(* [elems |-> <<...>>].  Array.isArray tells them apart.                   *)
(***************************************************************************)
Arr(s) == [elems |-> s]

IsArray(v) == "elems" \in DOMAIN v

Length(v) == Len(v.elems)

\* a.concat(b)
Concat(a, b) == Arr(a.elems \o b.elems)

\* Math.cos(angle) * scale and Math.sin(angle) * scale, kept symbolic
Trig(fn, angle, scale, negated) ==
    [trig |-> fn, angle |-> angle, scale |-> scale, negated |-> negated]

\* n.toFixed(digits), kept symbolic
ToFixed(n, digits) == [fixed |-> digits, of |-> n]

(***************************************************************************)
(* The recording surface.  A routine's outcome is the calls it made, in    *)
(* order, and the error it threw (NoError when it returned).               *)
(***************************************************************************)
Call(fn, key, val) == [fn |-> fn, key |-> key, val |-> val]

NoError == <<>>

Error(msg, detail) == <<msg, detail>>

Returned(cs) == [calls |-> cs, thrown |-> NoError]

Threw(cs, e) == [calls |-> cs, thrown |-> e]

\* statement sequencing: b runs only if a returned
Then(a, b) ==
    IF a.thrown # NoError THEN a
    ELSE [calls |-> a.calls \o b.calls, thrown |-> b.thrown]

AttributeNames == {"a_vertex"}

UniformNames == {"u_color", "u_position", "u_rotation", "u_size", "u_aspect_ratio"}

\* a linked program: the attribute and uniform names its shaders declare
Program(attrs, unis) == [attributes |-> attrs, uniforms |-> unis]

NoProgram == Program({}, {})

(***************************************************************************)
(* Shader unit                                                             *)
(***************************************************************************)
\* gl.getShaderInfoLog / gl.getProgramInfoLog: the driver's log of a live
\* handle, nothing for a deleted one
InfoLog(handle, live) == IF live THEN <<"info log of", handle>> ELSE <<>>

\* a compile() that raises without releasing the shader
compileLeaky(type, ok) ==
    LET made == << Call("createShader", type, <<>>),
                   Call("shaderSource", type, <<>>),
                   Call("compileShader", type, <<>>),
                   Call("getShaderParameter", type, "COMPILE_STATUS") >>
    IN  IF ~ok
        THEN Threw(made \o << Call("getShaderInfoLog", type, <<>>) >>,
                   Error("Failed to compile shader", InfoLog(type, TRUE)))
        ELSE Returned(made)

\* compile(gl, type, source): `ok` is the COMPILE_STATUS the driver reports
compile(type, ok) ==
    LET made == << Call("createShader", type, <<>>),
                   Call("shaderSource", type, <<>>),
                   Call("compileShader", type, <<>>),
                   Call("getShaderParameter", type, "COMPILE_STATUS") >>
    IN  IF ~ok
        THEN LET info == InfoLog(type, TRUE)
             IN  Threw(made \o << Call("getShaderInfoLog", type, <<>>),
                                  Call("deleteShader", type, <<>>) >>,
                       Error("Failed to compile shader", info))
        ELSE Returned(made)

\* link(gl, shaders): `ok` is the LINK_STATUS the driver reports
link(shaders, ok) ==
    LET made == << Call("createProgram", "program", <<>>) >>
                \o [i \in 1..Len(shaders) |-> Call("attachShader", "program", shaders[i])]
                \o << Call("linkProgram", "program", <<>>),
                      Call("getProgramParameter", "program", "LINK_STATUS") >>
    IN  IF ~ok
        THEN LET info == InfoLog("program", TRUE)
             IN  Threw(made \o << Call("getProgramInfoLog", "program", <<>>),
                                  Call("deleteProgram", "program", <<>>) >>,
                       Error("Failed to link program", info))
        ELSE Returned(made)

(***************************************************************************)
(* Uniform / attribute binder                                              *)
(***************************************************************************)
\* attribute(gl, program, key, value, size)
attribute(prog, key, value, size) ==
    LET made == << Call("createBuffer", key, <<>>),
                   Call("getAttribLocation", key, <<>>) >>
    IN  IF key \notin prog.attributes
        THEN Threw(made, Error("Failed to get attribute location", key))
        ELSE Returned(made \o << Call("bindBuffer", key, "ARRAY_BUFFER"),
                                 Call("bufferData", key, value),
                                 Call("enableVertexAttribArray", key, <<>>),
                                 Call("vertexAttribPointer", key, size) >>)

\* an upload rule that keeps the matrix path for arrays of 9 and sends every
\* other length but 2 and 4 down the scalar path
UploadNine(key, value) ==
    IF IsArray(value)
    THEN CASE Length(value) = 2 -> Call("uniform2fv", key, value)
           [] Length(value) = 4 -> Call("uniform4fv", key, value)
           [] Length(value) = 9 ->
                Call("uniformMatrix3fv", key, [transpose |-> FALSE, data |-> value])
           [] OTHER -> Call("uniform1f", key, value)
    ELSE Call("uniform1f", key, value)

\* the upload uniform() chooses for a value
Upload(key, value) ==
    IF IsArray(value)
    THEN CASE Length(value) = 2 -> Call("uniform2fv", key, value)
           [] Length(value) = 4 -> Call("uniform4fv", key, value)
           [] OTHER -> Call("uniformMatrix3fv", key, [transpose |-> FALSE, data |-> value])
    ELSE Call("uniform1f", key, value)

\* a uniform() that uploads without looking at the location it got
uniformUnchecked(prog, key, value) ==
    Returned(<< Call("getUniformLocation", key, <<>>), Upload(key, value) >>)

\* uniform(gl, program, key, value)
uniform(prog, key, value) ==
    LET made == << Call("getUniformLocation", key, <<>>) >>
    IN  IF key \notin prog.uniforms
        THEN Threw(made, Error("Failed to get uniform location", key))
        ELSE Returned(made \o << Upload(key, value) >>)

(***************************************************************************)
(* Bounds and inputs                                                       *)
(***************************************************************************)
\* client widths range over 1..MaxWidth
MaxWidth == 2

\* the client height of the body and of both canvases
Height == 2

\* the clock stops advancing here
MaxTime == 2000

\* frames counted in one FPS window
MaxFrames == 3

\* polygon(radius, sides, ...) with sides in 1..MaxSides
MaxSides == 12

\* lengths of the arrays handed to uniform()
MaxLength == 10

\* client sizes <<width, height>>
Sizes == (1..MaxWidth) \X {Height}

\* what construction is given: whether the two contexts can be acquired,
\* the statuses the driver reports for the two shaders and the program, and
\* the names the linked program declares
Source(gl, ctx2d, vertex, fragment, linked, prog) ==
    [gl |-> gl, ctx2d |-> ctx2d, vertex |-> vertex, fragment |-> fragment,
     link |-> linked, program |-> prog]

ValidSource == Source(TRUE, TRUE, TRUE, TRUE, TRUE, Program(AttributeNames, UniformNames))

\* sources construction fails on
BrokenSources ==
    { Source(FALSE, TRUE, TRUE, TRUE, TRUE, NoProgram),
      Source(TRUE, FALSE, TRUE, TRUE, TRUE, NoProgram),
      Source(TRUE, TRUE, FALSE, TRUE, TRUE, NoProgram),
      Source(TRUE, TRUE, TRUE, FALSE, TRUE, NoProgram),
      Source(TRUE, TRUE, FALSE, FALSE, TRUE, NoProgram),
      Source(TRUE, TRUE, TRUE, TRUE, FALSE, NoProgram) }

\* shaders that compile and link but lack one of the names draw() binds
LackingSources ==
    { Source(TRUE, TRUE, TRUE, TRUE, TRUE, Program(AttributeNames \ {n}, UniformNames \ {n})) :
        n \in AttributeNames \cup UniformNames }
    \cup { Source(TRUE, TRUE, TRUE, TRUE, TRUE, NoProgram) }

(***************************************************************************)
(* Renderer: draw primitives.  `prog` is this.program and `aspect` is      *)
(* this.aspect_ratio at the time of the call.                              *)
(***************************************************************************)
\* draw(wireframe, position, rotation, size)
draw(prog, aspect, wireframe, position, rotation, size) ==
    Then(attribute(prog, "a_vertex", wireframe.shape, 2),
    Then(uniform(prog, "u_color", wireframe.color),
    Then(uniform(prog, "u_position", position),
    Then(uniform(prog, "u_rotation", rotation),
    Then(uniform(prog, "u_size", size),
    Then(uniform(prog, "u_aspect_ratio", aspect),
         Returned(<< Call("drawArrays", "LINE_STRIP", Length(wireframe.shape) \div 2) >>)))))))

\* the wireframe line() builds
lineWireframe(aspect, rotation, color) ==
    [bounds |-> FZero,
     color |-> Concat(color, color),
     shape |-> Arr(<< Trig("cos", rotation, aspect, TRUE), Trig("sin", rotation, One, TRUE),
                      Trig("cos", rotation, aspect, FALSE), Trig("sin", rotation, One, FALSE) >>)]

\* line(x, y, rotation, color)
line(prog, aspect, x, y, rotation, color) ==
    draw(prog, aspect, lineWireframe(aspect, rotation, color), Arr(<<x, y>>), rotation, One)

RECURSIVE polygonLoop(_, _, _, _, _)
\* the loop of polygon(): for (r = 0; r <= Math.PI * 2; r += Math.PI * 2 / sides)
polygonLoop(r, sides, radius, color, wireframe) ==
    IF FLeq(r, FDouble(MathPI))
    THEN polygonLoop(FAdd(r, FDiv(FDouble(MathPI), sides)), sides, radius, color,
                     [wireframe EXCEPT
                        !.shape = Arr(@.elems \o << Trig("cos", r, radius, FALSE),
                                                    Trig("sin", r, radius, FALSE) >>),
                        !.color = Concat(@, color)])
    ELSE wireframe

\* the wireframe polygon() builds
polygonWireframe(radius, sides, color) ==
    polygonLoop(FZero, sides, radius, color,
                [bounds |-> FZero, color |-> Arr(<<>>), shape |-> Arr(<<>>)])

\* polygon(radius, sides, position, rotation, color)
polygon(prog, aspect, radius, sides, position, rotation, color) ==
    draw(prog, aspect, polygonWireframe(radius, sides, color), position, rotation, One)

\* _text(x, y, text, color, font); "" stands for an omitted argument.  The
\* overlay's half client size <<w, h>> and the measured width m.width are read
\* from the page and kept symbolic; fillText is given x * w / aspect and
\* y * -h.
_text(aspect, x, y, text, color, font) ==
    Returned(<< Call("save", "2d", <<>>),
                Call("font", "2d", IF font # "" THEN font ELSE "normal 16px Helvetica"),
                Call("measureText", "2d", text),
                Call("fillStyle", "2d", IF color # "" THEN color ELSE "#0f0"),
                Call("translate", "2d", <<"w - m.width / 2", "h">>),
                Call("fillText", "2d", [text |-> text, x |-> <<x, "* w /", aspect>>,
                                        y |-> <<y, "* -h">>]),
                Call("restore", "2d", <<>>) >>)

Grey == Arr(<< Lit(1, 4), Lit(1, 4), Lit(1, 4), One >>)

Green == Arr(<< FZero, One, FZero, One >>)

HalfPI == FDiv(MathPI, 2)

RECURSIVE Flatten(_, _, _)
\* the calls of outcomes lo..hi, in order
Flatten(outs, lo, hi) ==
    IF lo > hi THEN <<>>
    ELSE IF lo = hi THEN outs[lo].calls
    ELSE Flatten(outs, lo, (lo + hi) \div 2) \o Flatten(outs, (lo + hi) \div 2 + 1, hi)

\* a loop whose iterations have the outcomes outs: it stops at the first
\* iteration that throws
RunAll(outs) ==
    LET bad == { i \in 1..Len(outs) : outs[i].thrown # NoError }
        last == IF bad = {} THEN Len(outs) ELSE CHOOSE i \in bad : \A j \in bad : i <= j
    IN  [calls |-> Flatten(outs, 1, last),
         thrown |-> IF bad = {} THEN NoError ELSE outs[last].thrown]

RECURSIVE Steps(_, _, _)
\* the values v takes in: for (let v = from; v < limit; v += 0.1)
Steps(v, limit, acc) ==
    IF FLess(v, limit) THEN Steps(FAdd(v, Tenth), limit, Append(acc, v)) ELSE acc

\* for (let y = -1; y < 1; y += 0.1) this.line(0, y, Math.PI, grey)
gridRows(prog, aspect) ==
    LET ys == Steps(FNeg(One), One, <<>>)
    IN  RunAll([i \in 1..Len(ys) |-> line(prog, aspect, FZero, ys[i], MathPI, Grey)])

\* for (let x = -aspect; x < aspect; x += 0.1) this.line(x, 0, Math.PI / 2, grey)
gridColumns(prog, aspect) ==
    LET xs == Steps(FNeg(aspect), aspect, <<>>)
    IN  RunAll([i \in 1..Len(xs) |-> line(prog, aspect, xs[i], FZero, HalfPI, Grey)])

\* _grid()
_grid(prog, aspect) == Then(gridRows(prog, aspect), gridColumns(prog, aspect))

\* the programs a renderer can hold and the aspect ratios resize() can compute
Programs == { ValidSource.program } \cup { src.program : src \in LackingSources }

Aspects == { FDiv(FromInt(c[1]), c[2]) : c \in Sizes }

\* _grid() tabulated: grid[prog, aspect] = _grid(prog, aspect), computed once
grid == [prog \in Programs, aspect \in Aspects |-> _grid(prog, aspect)] @@ <<>>

\* the debug annotations of drawBody(body)
bodyTelemetry(prog, aspect, body) ==
    LET px == body.position.elems[1]
        py == body.position.elems[2]
        vx == body.velocity.elems[1]
        vy == body.velocity.elems[2]
        at == FAdd(px, Tenth)
    IN  Then(polygon(prog, aspect, body.wireframe.bounds, 8, body.position, body.rotation, Green),
        Then(_text(aspect, at, FAdd(py, FNeg(Lit(1, 10))),
                   <<"b", body.wireframe.bounds>>, "", ""),
        Then(_text(aspect, at, FAdd(py, FNeg(Lit(2, 10))),
                   <<"p", ToFixed(px, 3), ToFixed(py, 3)>>, "", ""),
        Then(_text(aspect, at, FAdd(py, FNeg(Lit(3, 10))),
                   <<"v", ToFixed(vx, 3), ToFixed(vy, 3)>>, "", ""),
             _text(aspect, at, FAdd(py, FNeg(Lit(4, 10))),
                   <<"r", ToFixed(body.rotation, 3)>>, "", "")))))

\* a drawBody() that annotates the body whatever the debug flag says
drawBodyAnnotated(prog, aspect, dbg, body) ==
    LET out == Then(draw(prog, aspect, body.wireframe, body.position, body.rotation, body.size),
                    bodyTelemetry(prog, aspect, body))
    IN  [calls |-> out.calls, thrown |-> out.thrown, body |-> body]

\* drawBody(body): the calls, the error, and the body as the call leaves it
drawBody(prog, aspect, dbg, body) ==
    LET out == Then(draw(prog, aspect, body.wireframe, body.position, body.rotation, body.size),
                    IF dbg THEN bodyTelemetry(prog, aspect, body) ELSE Returned(<<>>))
    IN  [calls |-> out.calls, thrown |-> out.thrown, body |-> body]

\* the length of the FPS sample window, in milliseconds
Window == 1000

\* a window step that still counts the frame that arrives a whole window
\* after the last reset
fpsStepInclusive(f, t) ==
    IF t - f.last <= Window
    THEN [f EXCEPT !.count = @ + 1]
    ELSE [count |-> 0, rate |-> f.count, last |-> t]

\* the FPS sample window step of clear()
fpsStep(f, t) ==
    IF t - f.last < Window
    THEN [f EXCEPT !.count = @ + 1]
    ELSE [count |-> 0, rate |-> f.count, last |-> t]

\* clear(): the new fps window, the calls and the error
clear(prog, aspect, dbg, f, t) ==
    LET f2 == fpsStep(f, t)
        out == Then(Returned(<< Call("clear", "gl", "COLOR_BUFFER_BIT"),
                                Call("clearRect", "2d",
                                     <<0, 0, "text.clientWidth", "text.clientHeight">>) >>),
                    IF dbg
                    THEN Then(grid[prog, aspect],
                              _text(aspect, FZero, Lit(9, 10), <<f2.rate, "FPS">>, "#fff", ""))
                    ELSE Returned(<<>>))
    IN  [fps |-> f2, calls |-> out.calls, thrown |-> out.thrown]

\* a resize() that takes the aspect ratio from the body's client size
resizeToBody(self, bw, bh, cw, ch) ==
    [self |-> [self EXCEPT
                 !.canvas = [game |-> [width |-> bw, height |-> bh],
                             text |-> [width |-> bw, height |-> bh]],
                 !.viewport = <<0, 0, cw, ch>>,
                 !.aspect_ratio = FDiv(FromInt(bw), bh)],
     calls |-> << Call("viewport", "gl", <<0, 0, cw, ch>>) >>]

\* a resize() that sets the viewport from the pixel size the GPU canvas had
\* before the call
resizeStale(self, bw, bh, cw, ch) ==
    [self |-> [self EXCEPT
                 !.canvas = [game |-> [width |-> bw, height |-> bh],
                             text |-> [width |-> bw, height |-> bh]],
                 !.viewport = <<0, 0, self.canvas.game.width, self.canvas.game.height>>,
                 !.aspect_ratio = FDiv(FromInt(cw), ch)],
     calls |-> << Call("viewport", "gl",
                       <<0, 0, self.canvas.game.width, self.canvas.game.height>>) >>]

\* resize() on the renderer `self`: the body's client size is <<bw, bh>> and
\* the GPU canvas's client size, read after its pixel size is set, is <<cw, ch>>
resize(self, bw, bh, cw, ch) ==
    [self |-> [self EXCEPT
                 !.canvas = [game |-> [width |-> bw, height |-> bh],
                             text |-> [width |-> bw, height |-> bh]],
                 !.viewport = <<0, 0, cw, ch>>,
                 !.aspect_ratio = FDiv(FromInt(cw), ch)],
     calls |-> << Call("viewport", "gl", <<0, 0, cw, ch>>) >>]

(***************************************************************************)
(* The entity layer's inputs                                               *)
(***************************************************************************)
White == Arr(<< One, One, One, One >>)

Red == Arr(<< One, FZero, FZero, One >>)

\* the bodies of the entity layer: a wireframe with one flat colour and one
\* with a colour per vertex
Bodies ==
    << [wireframe |-> [bounds |-> Lit(1, 10),
                       color |-> White,
                       shape |-> Arr(<< FZero, Lit(1, 10), Lit(1, 10), FZero, FZero, Lit(1, 10) >>)],
        position |-> Arr(<< FZero, Lit(1, 2) >>),
        rotation |-> FZero,
        size |-> One,
        velocity |-> Arr(<< FZero, FZero >>)],
       [wireframe |-> [bounds |-> Lit(1, 4),
                       color |-> Concat(Red, Red),
                       shape |-> Arr(<< FZero, FZero, Lit(1, 4), Lit(1, 4) >>)],
        position |-> Arr(<< Lit(1, 2), FNeg(Lit(1, 4)) >>),
        rotation |-> HalfPI,
        size |-> Lit(1, 2),
        velocity |-> Arr(<< Lit(1, 10), FZero >>)] >>

\* the arguments line() is called with: the example of the specification
\* and a grid row
Lines == { <<FZero, FZero, FZero, Red>>, <<FZero, Lit(1, 2), MathPI, Grey>> }

(***************************************************************************)
(* State                                                                   *)
(***************************************************************************)
VARIABLES
    phase,          \* "Uninitialized", "Ready", or "Failed" (the constructor threw)
    canvas,         \* pixel sizes of the two canvases
    viewport,       \* the GPU viewport
    aspect_ratio,   \* this.aspect_ratio
    fps,            \* this.fps
    debug,          \* this.debug
    program,        \* this.program
    listeners,      \* the event listeners registered, <<target, event>>
    bodies,         \* the bodies the game loop hands to drawBody
    now,            \* the time Date.now() last returned
    calls,          \* the calls the last operation made, in order
    thrown,         \* the error the last operation threw, or NoError
    op,             \* the last operation and its inputs
    client,         \* the GPU canvas's client size as the last resize() read it
    frames          \* clear() calls since the FPS window was last reset

vars == << phase, canvas, viewport, aspect_ratio, fps, debug, program, listeners,
           bodies, now, calls, thrown, op, client, frames >>

renderer == << canvas, viewport, aspect_ratio, fps, debug, program, listeners >>

\* the renderer as a record
This ==
    [canvas |-> canvas, viewport |-> viewport, aspect_ratio |-> aspect_ratio, fps |-> fps,
     debug |-> debug, program |-> program, listeners |-> listeners]

Op(name, arg) == [name |-> name, arg |-> arg]

\* a call made by the game loop itself, not by an event
Direct == <<"game loop", "call">>

Init ==
    /\ phase = "Uninitialized"
    /\ canvas = [game |-> [width |-> 0, height |-> 0], text |-> [width |-> 0, height |-> 0]]
    /\ viewport = <<0, 0, 0, 0>>
    /\ aspect_ratio = FZero
    /\ fps = [count |-> 0, rate |-> 0, last |-> 0]
    /\ debug = FALSE
    /\ program = NoProgram
    /\ listeners = {}
    /\ bodies = Bodies
    /\ now = 0
    /\ calls = <<>>
    /\ thrown = NoError
    /\ op = Op("none", <<>>)
    /\ client = <<0, 0>>
    /\ frames = 0

\* what the constructor does up to and including link()
build(src) ==
    LET contexts == << Call("getContext", "game", "webgl"), Call("getContext", "text", "2d") >>
    IN  IF ~src.gl \/ ~src.ctx2d
        THEN Threw(contexts, Error("Unsupported browser", <<>>))
        ELSE Then(Returned(contexts),
             Then(compile("VERTEX_SHADER", src.vertex),
             Then(compile("FRAGMENT_SHADER", src.fragment),
                  link(<<"VERTEX_SHADER", "FRAGMENT_SHADER">>, src.link))))

\* new Render(vertex, fragment) at time t
Construct(src, t, bw, bh, cw, ch) ==
    /\ phase = "Uninitialized"
    /\ now' = t
    /\ op' = Op("constructor", src)
    /\ frames' = 0
    /\ UNCHANGED bodies
    /\ LET fields == [This EXCEPT !.debug = FALSE,
                                  !.fps = [count |-> 0, rate |-> 0, last |-> t]]
           built == build(src)
           sized == resize([fields EXCEPT !.program = src.program], bw, bh, cw, ch)
       IN  IF built.thrown # NoError
           THEN /\ phase' = "Failed"
                /\ debug' = fields.debug
                /\ fps' = fields.fps
                /\ calls' = built.calls
                /\ thrown' = built.thrown
                /\ UNCHANGED << canvas, viewport, aspect_ratio, program, listeners, client >>
           ELSE /\ phase' = "Ready"
                /\ debug' = sized.self.debug
                /\ fps' = sized.self.fps
                /\ program' = sized.self.program
                /\ canvas' = sized.self.canvas
                /\ viewport' = sized.self.viewport
                /\ aspect_ratio' = sized.self.aspect_ratio
                /\ client' = <<cw, ch>>
                /\ listeners' = sized.self.listeners
                                \cup { <<"game", "webkitfullscreenchange">>,
                                       <<"window", "resize">> }
                /\ calls' = built.calls
                            \o << Call("useProgram", "program", <<>>),
                                  Call("clearColor", "gl", <<0, 0, 0, 1>>) >>
                            \o sized.calls
                            \o << Call("addEventListener", "game", "webkitfullscreenchange"),
                                  Call("addEventListener", "window", "resize") >>
                /\ thrown' = NoError

\* resize(), called by the game loop (via = Direct) or as the handler of an
\* event (via = <<target, event>>); the body's client size is <<bw, bh>> and
\* the GPU canvas's is <<cw, ch>>.  `again` records that the call before it
\* was a resize() that read the same sizes.
Resize(via, bw, bh, cw, ch) ==
    /\ phase = "Ready"
    /\ via = Direct \/ via \in listeners
    /\ LET sized == resize(This, bw, bh, cw, ch)
       IN  /\ canvas' = sized.self.canvas
           /\ viewport' = sized.self.viewport
           /\ aspect_ratio' = sized.self.aspect_ratio
           /\ fps' = sized.self.fps
           /\ debug' = sized.self.debug
           /\ program' = sized.self.program
           /\ listeners' = sized.self.listeners
           /\ calls' = sized.calls
    /\ thrown' = NoError
    /\ op' = Op("resize", [sizes |-> <<bw, bh, cw, ch>>,
                           again |-> op.name = "resize" /\ op.arg.sizes = <<bw, bh, cw, ch>>])
    /\ client' = <<cw, ch>>
    /\ UNCHANGED << phase, bodies, now, frames >>

\* clear() at time t
Clear(t) ==
    /\ phase = "Ready"
    /\ LET out == clear(program, aspect_ratio, debug, fps, t)
       IN  /\ out.fps.count <= MaxFrames
           /\ fps' = out.fps
           /\ calls' = out.calls
           /\ thrown' = out.thrown
    /\ now' = t
    /\ op' = Op("clear", t)
    /\ frames' = IF t - fps.last >= Window THEN 0 ELSE frames + 1
    /\ UNCHANGED << phase, canvas, viewport, aspect_ratio, debug, program, listeners,
                    bodies, client >>

\* draw(wireframe, position, rotation, size), called with a body's fields
Draw(i) ==
    /\ phase = "Ready"
    /\ LET b == bodies[i]
           out == draw(program, aspect_ratio, b.wireframe, b.position, b.rotation, b.size)
       IN  /\ calls' = out.calls
           /\ thrown' = out.thrown
    /\ op' = Op("draw", i)
    /\ UNCHANGED << phase, renderer, bodies, now, client, frames >>

\* drawBody(bodies[i])
DrawBody(i) ==
    /\ phase = "Ready"
    /\ LET out == drawBody(program, aspect_ratio, debug, bodies[i])
       IN  /\ calls' = out.calls
           /\ thrown' = out.thrown
           /\ bodies' = [bodies EXCEPT ![i] = out.body]
    /\ op' = Op("drawBody", i)
    /\ UNCHANGED << phase, renderer, now, client, frames >>

\* line(x, y, rotation, color)
Line(l) ==
    /\ phase = "Ready"
    /\ LET out == line(program, aspect_ratio, l[1], l[2], l[3], l[4])
       IN  /\ calls' = out.calls
           /\ thrown' = out.thrown
    /\ op' = Op("line", l)
    /\ UNCHANGED << phase, renderer, bodies, now, client, frames >>

\* polygon(1, sides, [0, 0], 0, [1, 1, 1, 1])
Polygon(sides) ==
    /\ phase = "Ready"
    /\ LET out == polygon(program, aspect_ratio, One, sides, Arr(<<FZero, FZero>>), FZero, White)
       IN  /\ calls' = out.calls
           /\ thrown' = out.thrown
    /\ op' = Op("polygon", sides)
    /\ UNCHANGED << phase, renderer, bodies, now, client, frames >>

\* fullscreen()
Fullscreen ==
    /\ phase = "Ready"
    /\ calls' = << Call("webkitRequestFullScreen", "game", <<>>) >>
    /\ thrown' = NoError
    /\ op' = Op("fullscreen", <<>>)
    /\ UNCHANGED << phase, renderer, bodies, now, client, frames >>

\* the game writes the debug flag
SetDebug(b) ==
    /\ phase = "Ready"
    /\ debug' = b
    /\ calls' = <<>>
    /\ thrown' = NoError
    /\ op' = Op("debug", b)
    /\ UNCHANGED << phase, canvas, viewport, aspect_ratio, fps, program, listeners,
                    bodies, now, client, frames >>

\* the times Date.now() may return next
Times(deltas, horizon) == { t \in { now + d : d \in deltas } : t <= horizon }

\* one step of the page, its inputs drawn from the given sets
Step(sources, sizes, deltas, horizon, sides) ==
    \/ \E src \in sources, t \in Times(deltas, horizon), b \in sizes, c \in sizes :
          Construct(src, t, b[1], b[2], c[1], c[2])
    \/ \E via \in {Direct, <<"window", "resize">>, <<"game", "webkitfullscreenchange">>},
          b \in sizes, c \in sizes :
          Resize(via, b[1], b[2], c[1], c[2])
    \/ \E t \in Times(deltas, horizon) : Clear(t)
    \/ \E i \in DOMAIN bodies : Draw(i)
    \/ \E i \in DOMAIN bodies : DrawBody(i)
    \/ \E l \in Lines : Line(l)
    \/ \E n \in sides : Polygon(n)
    \/ Fullscreen
    \/ \E b \in BOOLEAN : SetDebug(b)

\* the page: any source, every size, a clock that stands still or jumps a
\* whole FPS window
Next == Step({ValidSource} \cup BrokenSources, Sizes, {0, Window}, Window, {4, 8})

Spec == Init /\ [][Next]_vars

\* one canvas size, a clock that moves by nothing, half a window, a window
\* less one millisecond, or a whole window
NextFps ==
    Step({ValidSource}, {<<MaxWidth, Height>>},
         {0, Window \div 2, Window - 1, Window}, MaxTime, {8})

SpecFps == Init /\ [][NextFps]_vars

\* programs that lack names draw() binds
NextLookup ==
    Step({ValidSource} \cup LackingSources, {<<MaxWidth, Height>>}, {0}, 0, {4, 8})

SpecLookup == Init /\ [][NextLookup]_vars

\* polygons of every number of sides
NextPolygon == Step({ValidSource}, {<<MaxWidth, Height>>}, {0}, 0, 1..MaxSides)

SpecPolygon == Init /\ [][NextPolygon]_vars

(***************************************************************************)
(* uniform() on its own: Init draws a program, a name and a value of every *)
(* shape, and the one action calls uniform(gl, program, key, value).       *)
(***************************************************************************)
\* an array of n ones
Ones(n) == Arr([i \in 1..n |-> One])

UniformValues ==
    { FZero, One, Lit(1, 2), Grey, Arr(<<FZero, Lit(1, 2)>>) }
    \cup { Ones(n) : n \in 0..MaxLength }

UniformKeys == UniformNames \cup {"u_matrix"}

InitUniform ==
    /\ phase = "Uninitialized"
    /\ canvas = [game |-> [width |-> 0, height |-> 0], text |-> [width |-> 0, height |-> 0]]
    /\ viewport = <<0, 0, 0, 0>>
    /\ aspect_ratio = FZero
    /\ fps = [count |-> 0, rate |-> 0, last |-> 0]
    /\ debug = FALSE
    /\ program = NoProgram
    /\ listeners = {}
    /\ bodies = Bodies
    /\ now = 0
    /\ calls = <<>>
    /\ thrown = NoError
    /\ \E prog \in { ValidSource.program, Program(AttributeNames, UniformKeys) },
          key \in UniformKeys, value \in UniformValues :
          op = Op("uniform", <<prog, key, value>>)
    /\ client = <<0, 0>>
    /\ frames = 0

\* uniform(gl, program, key, value) is called
CallUniform ==
    /\ op.name = "uniform"
    /\ LET out == uniform(op.arg[1], op.arg[2], op.arg[3])
       IN  /\ calls' = out.calls
           /\ thrown' = out.thrown
    /\ op' = Op("uniform called", op.arg)
    /\ UNCHANGED << phase, renderer, bodies, now, client, frames >>

SpecUniform == InitUniform /\ [][CallUniform]_vars

(***************************************************************************)
(* Observers of the recording                                              *)
(***************************************************************************)
\* the positions in `calls` of the calls of gl/2d function fn
Made(fn) == { i \in DOMAIN calls : calls[i].fn = fn }

Count(fn) == Cardinality(Made(fn))

UploadFns == {"uniform1f", "uniform2fv", "uniform4fv", "uniformMatrix3fv"}

\* the positions of the uploads of the uniform key
Uploaded(key) == { i \in DOMAIN calls : calls[i].key = key /\ calls[i].fn \in UploadFns }

(***************************************************************************)
(* Resize                                                                  *)
(***************************************************************************)
\* C5: in every state after successful construction the aspect ratio is
\* clientWidth / clientHeight of the GPU canvas as the most recent resize()
\* read it, and every drawArrays is preceded by the upload of exactly that
\* value as u_aspect_ratio.
C5_AspectRatio ==
    phase = "Ready" =>
        /\ aspect_ratio = FDiv(FromInt(client[1]), client[2])
        /\ \A i \in Made("drawArrays") :
              calls[i - 1] = Call("uniform1f", "u_aspect_ratio", aspect_ratio)

\* a draw made while the GPU canvas's client width differs from the body's
C5_Witness ==
    /\ op.name = "draw"
    /\ client[1] # canvas.game.width
    /\ \E i \in Made("drawArrays") :
          calls[i - 1].val = FDiv(FromInt(client[1]), client[2])

\* C6 as stated: after every resize() both canvases have the body's client
\* size as their pixel size, and the viewport is (0, 0, W, H) with W and H
\* the GPU canvas's pixel width and height, whatever the canvas's client size.
C6_ResizeFillsCanvas ==
    /\ op.name = "resize" =>
          /\ canvas.game = [width |-> op.arg.sizes[1], height |-> op.arg.sizes[2]]
          /\ canvas.text = canvas.game
    /\ phase = "Ready" =>
          viewport = <<0, 0, canvas.game.width, canvas.game.height>>

\* a resize() after which the viewport is narrower or wider than the canvas
C6_Witness ==
    /\ op.name = "resize"
    /\ canvas.game.width = op.arg.sizes[1]
    /\ canvas.text = canvas.game
    /\ viewport = <<0, 0, client[1], client[2]>>
    /\ viewport[3] # canvas.game.width

\* C7: a resize() leaves the fps window, the debug flag and the program as
\* they were, and a resize() that follows a resize() which read the same body
\* and canvas client sizes leaves the canvas pixel sizes, the viewport and the
\* aspect ratio as the first one left them.
C7_ResizeIdempotent ==
    [][ op'.name = "resize" =>
          /\ fps' = fps /\ debug' = debug /\ program' = program
          /\ op'.arg.again =>
                canvas' = canvas /\ viewport' = viewport /\ aspect_ratio' = aspect_ratio
      ]_vars

\* resize() called twice in a row with a body wider than the canvas's layout
C7_Witness ==
    /\ op.name = "resize"
    /\ op.arg.again
    /\ op.arg.sizes[1] # op.arg.sizes[3]
    /\ canvas.game.width = op.arg.sizes[1]
    /\ viewport[3] = op.arg.sizes[3]

(***************************************************************************)
(* Construction failures                                                   *)
(***************************************************************************)
\* the handle construction fails on: the first shader whose status is false,
\* or the program
FailedHandle(src) ==
    IF ~src.vertex THEN "VERTEX_SHADER"
    ELSE IF ~src.fragment THEN "FRAGMENT_SHADER"
    ELSE "program"

\* C8: when the constructor ends in a compile or link error, the last call
\* made is the deletion of the failed handle, the call before it read that
\* handle's info log, the error carries that log, the failed handle was
\* compiled or linked once, no program was put in use and no listener was
\* registered.
C8_FailureReleases ==
    (phase = "Failed" /\ thrown[1] # "Unsupported browser") =>
        LET n == Len(calls)
            handle == FailedHandle(op.arg)
            shader == handle # "program"
        IN  /\ thrown[1] = (IF shader THEN "Failed to compile shader"
                                      ELSE "Failed to link program")
            /\ calls[n] = Call(IF shader THEN "deleteShader" ELSE "deleteProgram", handle, <<>>)
            /\ calls[n - 1] = Call(IF shader THEN "getShaderInfoLog" ELSE "getProgramInfoLog",
                                   handle, <<>>)
            /\ thrown[2] = InfoLog(handle, TRUE)
            /\ Cardinality({ i \in Made(IF shader THEN "compileShader" ELSE "linkProgram") :
                               calls[i].key = handle }) = 1
            /\ Count("useProgram") = 0
            /\ Count("addEventListener") = 0
            /\ listeners = {}

\* the fragment shader fails to compile after the vertex shader compiled
C8_Witness ==
    /\ phase = "Failed"
    /\ op.arg.vertex /\ ~op.arg.fragment
    /\ thrown = Error("Failed to compile shader", InfoLog("FRAGMENT_SHADER", TRUE))
    /\ Made("deleteShader") = {Len(calls)}
    /\ Count("compileShader") = 2

(***************************************************************************)
(* Debug output                                                            *)
(***************************************************************************)
First(S) == CHOOSE i \in S : \A j \in S : i <= j

Last(S) == CHOOSE i \in S : \A j \in S : j <= i

\* C10: with debug false clear() makes the two clearing calls and nothing
\* else, and drawBody(body) makes one drawArrays, of the body's shape, and no
\* fillText; with debug true clear() makes the two clearing calls first, then
\* the grid's draws, then one fillText with the FPS rate, and drawBody(body)
\* draws the body's shape, then the 8-sided polygon of radius
\* body.wireframe.bounds, then makes exactly four fillText calls.  The bodies
\* stay as the entity layer made them.
C10_DebugGating ==
    /\ bodies = Bodies
    /\ op.name = "clear" =>
          /\ calls[1] = Call("clear", "gl", "COLOR_BUFFER_BIT")
          /\ calls[2].fn = "clearRect"
          /\ Count("clear") = 1 /\ Count("clearRect") = 1
          /\ IF debug
             THEN /\ Made("drawArrays") # {}
                  /\ Count("fillText") = 1
                  /\ \A i \in Made("fillText") :
                        /\ calls[i].val.text = <<fps.rate, "FPS">>
                        /\ \A d \in Made("drawArrays") : d < i
             ELSE Len(calls) = 2
    /\ op.name = "drawBody" =>
          LET body == bodies[op.arg]
              draws == Made("drawArrays")
              texts == Made("fillText")
              buffers == Made("bufferData")
          IN  /\ calls[First(buffers)].val = body.wireframe.shape
              /\ IF debug
                 THEN /\ Cardinality(draws) = 2
                      /\ Cardinality(buffers) = 2
                      /\ calls[Last(buffers)].val =
                            polygonWireframe(body.wireframe.bounds, 8, Green).shape
                      /\ Cardinality(texts) = 4
                      /\ \A d \in draws, t \in texts : d < t
                 ELSE Cardinality(draws) = 1 /\ Cardinality(buffers) = 1 /\ texts = {}

\* a body drawn with its annotations
C10_Witness ==
    /\ op.name = "drawBody"
    /\ debug
    /\ Count("drawArrays") = 2
    /\ Count("fillText") = 4
    /\ calls[Last(Made("drawArrays"))].val = 9

(***************************************************************************)
(* Caller convention                                                       *)
(***************************************************************************)
\* the shape-to-path convention holds of the uploads at the positions S
Conventional(S) ==
    \A i \in S :
        calls[i].fn \in UploadFns =>
            calls[i].fn = (CASE calls[i].key = "u_color" -> "uniform4fv"
                             [] calls[i].key = "u_position" -> "uniform2fv"
                             [] OTHER -> "uniform1f")

\* C4 as stated: in the draws the renderer issues itself (line, polygon, the
\* grid of clear, the bounding polygon of drawBody) u_color goes through the
\* 4-float path, u_position through the 2-float path and u_rotation, u_size
\* and u_aspect_ratio through the 1-float path.
C4_CallerConvention ==
    /\ op.name \in {"line", "polygon", "clear"} => Conventional(DOMAIN calls)
    /\ (op.name = "drawBody" /\ debug) =>
          Conventional({ i \in DOMAIN calls : i > First(Made("drawArrays")) })

\* a line whose colour went through the matrix path as 8 floats
C4_Witness ==
    /\ op.name = "line"
    /\ \E i \in Uploaded("u_color") :
          /\ calls[i].fn = "uniformMatrix3fv"
          /\ Length(calls[i].val.data) = 8

(***************************************************************************)
(* FPS window                                                              *)
(***************************************************************************)
\* C1: a clear() that finds less than 1000 ms since fps.last adds exactly 1
\* to fps.count and leaves fps.rate and fps.last alone; a clear() that finds
\* 1000 ms or more sets fps.rate to the number of frames counted since the
\* previous reset, fps.count to 0 and fps.last to the current time.
C1_FpsWindow ==
    [][ op'.name = "clear" =>
          IF now' - fps.last < Window
          THEN fps' = [count |-> fps.count + 1, rate |-> fps.rate, last |-> fps.last]
          ELSE fps' = [count |-> 0, rate |-> frames, last |-> now']
      ]_vars

\* a boundary clear() that closes a second window in which frames were counted
C1_Witness ==
    /\ op.name = "clear"
    /\ fps.last = now
    /\ fps.last - Window >= Window
    /\ fps.count = 0
    /\ fps.rate >= 2

(***************************************************************************)
(* Lookup errors                                                           *)
(***************************************************************************)
\* the names draw() binds, in the order it binds them
BindOrder == << "a_vertex", "u_color", "u_position", "u_rotation", "u_size", "u_aspect_ratio" >>

\* the names of BindOrder the program does not resolve
Unresolved == { i \in DOMAIN BindOrder : BindOrder[i] \notin program.attributes \cup program.uniforms }

\* C2: an operation that draws (draw, drawBody, line, polygon, and clear with
\* the debug grid) on a program that does not resolve one of the names
\* draw() binds ends in the lookup error of the first such name, its last
\* call being that lookup, and makes no drawArrays call.
C2_LookupError ==
    ( /\ phase = "Ready"
      /\ Unresolved # {}
      /\ op.name \in {"draw", "drawBody", "line", "polygon"} \/ (op.name = "clear" /\ debug) ) =>
        LET name == BindOrder[First(Unresolved)]
        IN  /\ thrown = (IF name = "a_vertex"
                         THEN Error("Failed to get attribute location", name)
                         ELSE Error("Failed to get uniform location", name))
            /\ calls[Len(calls)] = Call(IF name = "a_vertex" THEN "getAttribLocation"
                                                             ELSE "getUniformLocation",
                                        name, <<>>)
            /\ Count("drawArrays") = 0

\* the debug grid of clear() stops at the last uniform of its first line
C2_Witness ==
    /\ phase = "Ready"
    /\ op.name = "clear"
    /\ debug
    /\ program.uniforms = UniformNames \ {"u_aspect_ratio"}
    /\ thrown = Error("Failed to get uniform location", "u_aspect_ratio")
    /\ Count("clearRect") = 1
    /\ Count("getUniformLocation") = 5
    /\ Count("drawArrays") = 0

(***************************************************************************)
(* Uniform dispatch                                                        *)
(***************************************************************************)
\* C3: uniform() with a name the program resolves makes exactly one upload
\* call after the lookup: uniform1f for a number, uniform2fv for an array of
\* length 2, uniform4fv for an array of length 4, and uniformMatrix3fv with
\* transpose false for an array of any other length.
C3_UniformDispatch ==
    (op.name = "uniform called" /\ op.arg[2] \in op.arg[1].uniforms) =>
        LET key == op.arg[2]
            value == op.arg[3]
        IN  /\ thrown = NoError
            /\ Len(calls) = 2
            /\ calls[1].fn \notin UploadFns
            /\ calls[2].key = key
            /\ calls[2].fn = (IF ~IsArray(value) THEN "uniform1f"
                              ELSE IF Length(value) = 2 THEN "uniform2fv"
                              ELSE IF Length(value) = 4 THEN "uniform4fv"
                              ELSE "uniformMatrix3fv")
            /\ calls[2].val = (IF calls[2].fn = "uniformMatrix3fv"
                               THEN [transpose |-> FALSE, data |-> value]
                               ELSE value)

\* an array of three went down the matrix path
C3_Witness ==
    /\ op.name = "uniform called"
    /\ op.arg[3] = Ones(3)
    /\ calls[2] = Call("uniformMatrix3fv", op.arg[2], [transpose |-> FALSE, data |-> Ones(3)])

(***************************************************************************)
(* Polygon                                                                 *)
(***************************************************************************)
\* C9 as stated: polygon(1, sides, [0, 0], 0, [1, 1, 1, 1]) hands the GPU
\* sides + 1 vertices, each a cos/sin pair scaled by the radius, with one
\* copy of the colour per vertex, and makes one drawArrays over sides + 1
\* vertices with u_size 1.
C9_PolygonVertices ==
    op.name = "polygon" =>
        LET sides == op.arg
            shape == calls[First(Made("bufferData"))].val
            color == calls[First(Uploaded("u_color"))].val.data
        IN  /\ Length(shape) = 2 * (sides + 1)
            /\ \A i \in DOMAIN shape.elems : shape.elems[i].scale = One
            /\ Length(color) = 4 * (sides + 1)
            /\ Count("drawArrays") = 1
            /\ calls[Last(Made("drawArrays"))].val = sides + 1
            /\ calls[First(Uploaded("u_size"))].val = One

\* the polygon the renderer draws with fewer vertices than sides + 1
C9_Witness ==
    /\ op.name = "polygon"
    /\ calls[Last(Made("drawArrays"))].val = op.arg
    /\ Length(calls[First(Made("bufferData"))].val) = 2 * op.arg

=============================================================================
